---- MODULE Spec2Model ----
(***************************************************************************)
(* The dynamic task-graph scheduler of the blocked Householder QR          *)
(* factorization (ParallelQR/main.cpp): the driver dagqrf, the worker loop *)
(* thdwork with its ready queue taskPQ and its wait_queue, the dependency  *)
(* table, and the write footprints of the kernels complete_task1 and       *)
(* complete_task2.  The task table and the dependency table are declared   *)
(* in include/bn2.h, which is not part of the sources at hand; they are    *)
(* modelled from sections 4.3 and 4.4 of the specification.                *)
(*                                                                         *)
(* Matrix data is abstracted to write footprints: a kernel is taken on a   *)
(* generic input (no degenerate pivot, no zero dot product), so it stores  *)
(* to every cell its loops can store to.                                   *)
(***************************************************************************)
EXTENDS Integers, Sequences, FiniteSets

\* ------------------------------------------------------------------ bounds
MaxRows == 3        \* largest mat_rows passed to dagqrf
MaxCols == 3        \* largest mat_cols passed to dagqrf
MaxAlpha == 2       \* largest ALPHA a build is given
MaxRatio == 2       \* largest BETA / ALPHA a build is given
MaxThreads == 2     \* largest NUM_THREADS a build is given
MaxCalls == 2       \* invocations of dagqrf in one process

VARIABLES
    ALPHA, BETA, NUM_THREADS, USE_PRIORITY_MAIN_QUEUE,  \* the #defines of a build
    mat_rows, mat_cols,       \* arguments of the current dagqrf call
    driver,                   \* "idle" | "joining" : position of the caller of dagqrf
    ncalls,                   \* dagqrf calls made so far
    taskPQ,                   \* ready queue: sequence of tasks <<i, j>>
    wait_queue,               \* wait queue: sequence of tasks <<i, j>>
    dependency_table,         \* [0..TR-1 -> [0..TC-1 -> BOOLEAN]]
    global_up_array,          \* sequence; slot r+1 is Zero or the task that stored up[r], b[r]
    mat,                      \* the numbers in the caller's array, by flat index (Generic: not followed)
    mat_in,                   \* history: the array as it was passed to dagqrf
    global_up_values,         \* the numbers in global_up_array; slot r+1 is up[r]
    global_b_values,          \* the numbers in global_b_array; slot r+1 is q for b[r] = 1/q, 0 for 0.0
    pc,                       \* worker -> position in thdwork
    new_task,                 \* worker -> task popped in this loop iteration (or NoTask)
    k,                        \* worker -> loop variable of the R1 loop (0 outside it)
    done,                     \* history: tasks in the order their kernels returned
    enqBy                     \* history: task -> task whose worker pushed it (Seed for the driver)

vars == <<ALPHA, BETA, NUM_THREADS, USE_PRIORITY_MAIN_QUEUE, mat_rows, mat_cols,
          driver, ncalls, taskPQ, wait_queue, dependency_table, global_up_array,
          mat, mat_in, global_up_values, global_b_values,
          pc, new_task, k, done, enqBy>>

build == <<ALPHA, BETA, NUM_THREADS, USE_PRIORITY_MAIN_QUEUE>>
args == <<mat_rows, mat_cols>>
values == <<mat, mat_in, global_up_values, global_b_values>>

NoTask == <<-1, -1>>
Seed == <<-2, -2>>
Zero == <<-3, -3>>

\* an input array whose numbers are not followed: the kernels are then taken by
\* their footprints only
Generic == <<>>

Min(a, b) == IF a < b THEN a ELSE b

\* mutant: the quotient is rounded down
CeilDiv_floor(a, b) == a \div b

\* std::ceil((double)a / b) for a >= 0, b >= 1
CeilDiv(a, b) == (a + b - 1) \div b

BETA_DIV_ALPHA == BETA \div ALPHA

total_task_rows == CeilDiv(mat_rows, BETA)
total_task_cols == CeilDiv(mat_rows, ALPHA)

Threads == 1..NUM_THREADS

Tasks == (0..(total_task_rows - 1)) \X (0..(total_task_cols - 1))

\* ------------------------------------------------------- task table (4.3)
row_start(t) == t[1] * BETA
row_end(t) == Min((t[1] + 1) * BETA, mat_rows)
col_start(t) == t[2] * ALPHA
col_end(t) == Min((t[2] + 1) * ALPHA, mat_rows)
type(t) == IF t[2] = t[1] * BETA_DIV_ALPHA THEN 1 ELSE 2
enq_nxt_t1(t) ==
    /\ type(t) = 2
    /\ t[2] + 1 = (t[1] + 1) * BETA_DIV_ALPHA
    /\ t[1] + 1 < total_task_rows
priority(t) == (total_task_rows - t[1]) * 2 + (IF type(t) = 1 THEN 1 ELSE 0)

\* task_table.getTask(i, j)
getTask(i, j) == <<i, j>>

\* ------------------------------------------------- dependency table (4.4)
DependencyInit(rows, cols) == [i \in 0..(rows - 1) |-> [j \in 0..(cols - 1) |-> FALSE]]
getDependency(i, j) == dependency_table[i][j]
setDependency(i, j, v) == [dependency_table EXCEPT ![i][j] = v]

\* ---------------------------------------------------------------- kernels
\* mat[r * n + c]
Cell(r, c) == r * mat_cols + c

\* int _row_start = row_start == 1 ? 0 : row_start;  (both kernels)
\* int _col_start = col_start == 1 ? 0 : col_start;  (complete_task2)
OneIsZero(x) == IF x = 1 THEN 0 ELSE x

\* the pivot rows a kernel iterates over
Pivots(t) == OneIsZero(row_start(t))..(row_end(t) - 1)

\* the stores of the column loop for pivot lp and vector j (lines 123-127, 161-165)
UpdateCells(lp, j) == {Cell(j, lp)} \cup {Cell(j, c) : c \in (lp + 1)..(mat_cols - 1)}

\* the vectors j the column loop of complete_task2 iterates over (lines 137, 146)
Vectors(t) == OneIsZero(col_start(t))..(col_end(t) - 1)

\* cells complete_task1 stores to
complete_task1_writes(t) ==
    UNION {{Cell(lp, lp)} \cup UNION {UpdateCells(lp, j) : j \in (lp + 1)..(col_end(t) - 1)}
           : lp \in Pivots(t)}

\* cells complete_task2 stores to
complete_task2_writes(t) ==
    UNION {UNION {UpdateCells(lp, j) : j \in OneIsZero(col_start(t))..(col_end(t) - 1)}
           : lp \in Pivots(t)}

\* the matrix elements <<row, column>> the column loop reads or stores for pivot lp
\* and vector j: mat[j * n + lpivot], mat[j * n + i__], mat[lpivot * n + i__]
UpdateAccesses(lp, j) ==
    {<<j, lp>>} \cup UNION {{<<j, c>>, <<lp, c>>} : c \in (lp + 1)..(mat_cols - 1)}

\* matrix elements complete_task1 reads or stores
complete_task1_accesses(t) ==
    UNION {{<<lp, lp>>} \cup {<<lp, c>> : c \in (lp + 1)..(mat_cols - 1)}
               \cup UNION {UpdateAccesses(lp, j) : j \in (lp + 1)..(col_end(t) - 1)}
           : lp \in Pivots(t)}

\* matrix elements complete_task2 reads or stores
complete_task2_accesses(t) ==
    UNION {UNION {UpdateAccesses(lp, j) : j \in OneIsZero(col_start(t))..(col_end(t) - 1)}
           : lp \in Pivots(t)}

KernelAccesses(t) ==
    IF type(t) = 1 THEN complete_task1_accesses(t) ELSE complete_task2_accesses(t)

KernelWrites(t) == IF type(t) = 1 THEN complete_task1_writes(t) ELSE complete_task2_writes(t)

\* mutant: the reflectors are stored one slot further (global_up_array[lpivot + 1])
StoreReflectors_next_slot(arr, t) == [r \in 1..Len(arr) |-> IF (r - 2) \in Pivots(t) THEN t ELSE arr[r]]

\* global_up_array[lpivot] = up; global_b_array[lpivot] = b;  for every pivot of t
StoreReflectors(arr, t) == [r \in 1..Len(arr) |-> IF (r - 1) \in Pivots(t) THEN t ELSE arr[r]]

\* std::vector::resize(n, 0.0): keeps the first n slots, pads with 0.0
Resize(arr, n) == [r \in 1..n |-> IF r <= Len(arr) THEN arr[r] ELSE Zero]
ResizeValues(arr, n) == [r \in 1..n |-> IF r <= Len(arr) THEN arr[r] ELSE 0]

\* ----------------------------------------------------- kernels on numbers
\* The numbers are integers, and the kernels are followed on inputs on which
\* their arithmetic is exact: a quotient or a square root that is no integer has
\* no value here.  b = 1.0 / b is kept as its denominator q (b = 1/q).
Abs(x) == IF x < 0 THEN -x ELSE x
ExactDiv(x, d) == CHOOSE q \in {IF d > 0 THEN x \div d ELSE (-x) \div (-d)} : q * d = x
Sqrt(x) == CHOOSE r \in 0..x : r * r = x

\* sm *= b  for b = 1/q, or b = 0.0 when q = 0
TimesB(sm, q) == IF q = 0 THEN 0 ELSE ExactDiv(sm, q)

RECURSIVE Sum(_, _)
Sum(f, S) == IF S = {} THEN 0 ELSE LET x == CHOOSE y \in S : TRUE IN f[x] + Sum(f, S \ {x})

\* the columns lpivot + 1 .. n - 1 of the loops over k and i__
RowTail(lp) == (lp + 1)..(mat_cols - 1)

\* cl after the loop over k: the largest magnitude in row lpivot from the diagonal on
PivotNorm(a, lp) ==
    LET mags == {Abs(a[Cell(lp, c)]) : c \in lp..(mat_cols - 1)}
    IN CHOOSE x \in mags : \A y \in mags : y <= x

\* sm1 after the loop over k
TailSquares(a, lp) == Sum([c \in RowTail(lp) |-> a[Cell(lp, c)] * a[Cell(lp, c)]], RowTail(lp))

\* one iteration of the column loop: vector j against pivot lp (lines 110-127, 148-165)
UpdateRow(a, lp, j, up, q) ==
    LET sm == a[Cell(j, lp)] * up
                  + Sum([c \in RowTail(lp) |-> a[Cell(j, c)] * a[Cell(lp, c)]], RowTail(lp))
        smb == TimesB(sm, q)
    IN IF sm = 0
       THEN a
       ELSE [x \in DOMAIN a |->
                IF x = Cell(j, lp) THEN a[x] + smb * up
                ELSE IF x \in {Cell(j, c) : c \in RowTail(lp)}
                     THEN a[x] + smb * a[Cell(lp, x - j * mat_cols)]
                     ELSE a[x]]

\* the column loop from vector j up to hi - 1
RECURSIVE ColumnLoop(_, _, _, _, _, _)
ColumnLoop(a, lp, j, hi, up, q) ==
    IF j >= hi THEN a ELSE ColumnLoop(UpdateRow(a, lp, j, up, q), lp, j + 1, hi, up, q)

\* mutant: the sign of cl is not turned against the sign of the diagonal element
complete_task1_pivot_same_sign(v, t, lp) ==
    LET a == v.mat
        cl0 == PivotNorm(a, lp)
        d == a[Cell(lp, lp)]
        d1 == ExactDiv(d, cl0)
        sm == d1 * d1 + ExactDiv(ExactDiv(TailSquares(a, lp), cl0), cl0)
        cl1 == cl0 * Sqrt(sm)
        cl2 == IF d > 0 THEN cl1 ELSE -cl1
        up == d - cl2
        a1 == [a EXCEPT ![Cell(lp, lp)] = cl2]
        q == up * cl2
    IN IF cl0 <= 0
       THEN v
       ELSE IF q >= 0
            THEN [v EXCEPT !.mat = a1]
            ELSE [mat |-> ColumnLoop(a1, lp, lp + 1, col_end(t), up, q),
                  up |-> [v.up EXCEPT ![lp + 1] = up],
                  b |-> [v.b EXCEPT ![lp + 1] = q]]

\* one iteration of the pivot loop of complete_task1 (lines 61-129) on the arrays
\* v = [mat, up, b]
complete_task1_pivot(v, t, lp) ==
    LET a == v.mat
        cl0 == PivotNorm(a, lp)
        d == a[Cell(lp, lp)]
        d1 == ExactDiv(d, cl0)
        sm == d1 * d1 + ExactDiv(ExactDiv(TailSquares(a, lp), cl0), cl0)
        cl1 == cl0 * Sqrt(sm)
        cl2 == IF d > 0 THEN -cl1 ELSE cl1
        up == d - cl2
        a1 == [a EXCEPT ![Cell(lp, lp)] = cl2]
        q == up * cl2
    IN IF cl0 <= 0
       THEN v
       ELSE IF q >= 0
            THEN [v EXCEPT !.mat = a1]
            ELSE [mat |-> ColumnLoop(a1, lp, lp + 1, col_end(t), up, q),
                  up |-> [v.up EXCEPT ![lp + 1] = up],
                  b |-> [v.b EXCEPT ![lp + 1] = q]]

\* the pivot loop of complete_task1 from pivot lp up to stop - 1
RECURSIVE complete_task1_from(_, _, _, _)
complete_task1_from(v, t, lp, stop) ==
    IF lp >= stop
    THEN v
    ELSE complete_task1_from(complete_task1_pivot(v, t, lp), t, lp + 1, stop)

\* one iteration of the pivot loop of complete_task2 (lines 143-166)
complete_task2_pivot(v, t, lp) ==
    [v EXCEPT !.mat = ColumnLoop(v.mat, lp, OneIsZero(col_start(t)), col_end(t),
                                 v.up[lp + 1], v.b[lp + 1])]

RECURSIVE complete_task2_from(_, _, _, _)
complete_task2_from(v, t, lp, stop) ==
    IF lp >= stop
    THEN v
    ELSE complete_task2_from(complete_task2_pivot(v, t, lp), t, lp + 1, stop)

\* the arrays after the kernel of t has run on the arrays v
KernelValues(v, t) ==
    IF type(t) = 1
    THEN complete_task1_from(v, t, OneIsZero(row_start(t)), row_end(t))
    ELSE complete_task2_from(v, t, OneIsZero(row_start(t)), row_end(t))

Arrays == [mat |-> mat, up |-> global_up_values, b |-> global_b_values]

\* ----------------------------------------------------------------- queues
\* mutant: the comparison turned around (the queue hands out the lowest priority)
TaskComparator_reversed(a, b) == priority(a) > priority(b)

\* mutant: the comparison looks at the panel row only
TaskComparator_panel_only(a, b) == a[1] > b[1]

\* TaskComparator: a is ordered below b
TaskComparator(a, b) == priority(a) < priority(b)

\* positions try_pop may return: the head of the FIFO queue, or any entry no other
\* entry is ordered above in the priority queue
PriorityChoices(q) == {x \in DOMAIN q : \A y \in DOMAIN q : ~TaskComparator(q[x], q[y])}
PopChoices(q) ==
    IF USE_PRIORITY_MAIN_QUEUE
    THEN PriorityChoices(q)
    ELSE {x \in DOMAIN q : x = 1}

\* mutant: the pop hands out the entry without removing it from the queue
RemoveAt_peek(q, x) == q

\* the queue after try_pop has taken out the entry at position x
RemoveAt(q, x) == [y \in 1..(Len(q) - 1) |-> IF y < x THEN q[y] ELSE q[y + 1]]

\* ------------------------------------------------------------------- Init
Init ==
    /\ ALPHA \in 1..MaxAlpha
    /\ \E ratio \in 1..MaxRatio : BETA = ALPHA * ratio
    /\ NUM_THREADS \in 1..MaxThreads
    /\ USE_PRIORITY_MAIN_QUEUE \in BOOLEAN
    /\ mat_rows = 0
    /\ mat_cols = 0
    /\ driver = "idle"
    /\ ncalls = 0
    /\ taskPQ = <<>>
    /\ wait_queue = <<>>
    /\ dependency_table = <<>>
    /\ global_up_array = <<>>
    /\ mat = Generic
    /\ mat_in = Generic
    /\ global_up_values = <<>>
    /\ global_b_values = <<>>
    /\ pc = [w \in Threads |-> "nothread"]
    /\ new_task = [w \in Threads |-> NoTask]
    /\ k = [w \in Threads |-> 0]
    /\ done = <<>>
    /\ enqBy = {}

\* ----------------------------------------------------------------- driver
\* mutant: the seed is pushed inside the thread-creation loop, once per thread
dagqrf_seed_per_thread(a, m, n) ==
    /\ driver = "idle"
    /\ ncalls < MaxCalls
    /\ mat_rows' = m
    /\ mat_cols' = n
    /\ global_up_array' = Resize(global_up_array, m)
    /\ mat' = a
    /\ mat_in' = a
    /\ global_up_values' = ResizeValues(global_up_values, m)
    /\ global_b_values' = ResizeValues(global_b_values, m)
    /\ dependency_table' = DependencyInit(CeilDiv(m, BETA), CeilDiv(m, ALPHA))
    /\ taskPQ' = taskPQ \o [x \in 1..NUM_THREADS |-> getTask(0, 0)]
    /\ pc' = [w \in Threads |-> "pop"]
    /\ new_task' = [w \in Threads |-> NoTask]
    /\ k' = [w \in Threads |-> 0]
    /\ driver' = "joining"
    /\ ncalls' = ncalls + 1
    /\ done' = <<>>
    /\ enqBy' = {<<getTask(0, 0), Seed>>}
    /\ UNCHANGED <<build, wait_queue>>

\* dagqrf up to and including pthread_create
dagqrf(a, m, n) ==
    /\ driver = "idle"
    /\ ncalls < MaxCalls
    /\ mat_rows' = m
    /\ mat_cols' = n
    /\ global_up_array' = Resize(global_up_array, m)
    /\ mat' = a
    /\ mat_in' = a
    /\ global_up_values' = ResizeValues(global_up_values, m)
    /\ global_b_values' = ResizeValues(global_b_values, m)
    /\ dependency_table' = DependencyInit(CeilDiv(m, BETA), CeilDiv(m, ALPHA))
    /\ taskPQ' = Append(taskPQ, getTask(0, 0))
    /\ pc' = [w \in Threads |-> "pop"]
    /\ new_task' = [w \in Threads |-> NoTask]
    /\ k' = [w \in Threads |-> 0]
    /\ driver' = "joining"
    /\ ncalls' = ncalls + 1
    /\ done' = <<>>
    /\ enqBy' = {<<getTask(0, 0), Seed>>}
    /\ UNCHANGED <<build, wait_queue>>

\* the pthread_join loop and the return of dagqrf
join ==
    /\ driver = "joining"
    /\ \A w \in Threads : pc[w] = "exited"
    /\ driver' = "idle"
    /\ pc' = [w \in Threads |-> "nothread"]
    /\ UNCHANGED <<build, args, values, ncalls, taskPQ, wait_queue, dependency_table,
                   global_up_array, new_task, k, done, enqBy>>

\* ---------------------------------------------------------------- thdwork
\* mutant: the flag of the popped task is set before its kernel runs
try_pop_ready_flag_first(w) ==
    /\ pc[w] = "pop"
    /\ IF taskPQ = <<>>
       THEN /\ pc' = [pc EXCEPT ![w] = "wait"]
            /\ UNCHANGED <<taskPQ, new_task, dependency_table>>
       ELSE \E x \in PopChoices(taskPQ) :
            /\ new_task' = [new_task EXCEPT ![w] = taskPQ[x]]
            /\ taskPQ' = RemoveAt(taskPQ, x)
            /\ dependency_table' = setDependency(taskPQ[x][1], taskPQ[x][2], TRUE)
            /\ pc' = [pc EXCEPT ![w] = "exec"]
    /\ UNCHANGED <<build, args, values, driver, ncalls, wait_queue, global_up_array, k, done, enqBy>>

\* taskPQ.try_pop(new_task) and, on success, entry into the task's kernel
try_pop_ready(w) ==
    /\ pc[w] = "pop"
    /\ IF taskPQ = <<>>
       THEN /\ pc' = [pc EXCEPT ![w] = "wait"]
            /\ UNCHANGED <<taskPQ, new_task>>
       ELSE \E x \in PopChoices(taskPQ) :
            /\ new_task' = [new_task EXCEPT ![w] = taskPQ[x]]
            /\ taskPQ' = RemoveAt(taskPQ, x)
            /\ pc' = [pc EXCEPT ![w] = "exec"]
    /\ UNCHANGED <<build, args, values, driver, ncalls, wait_queue, dependency_table,
                   global_up_array, k, done, enqBy>>

\* complete_task1 / complete_task2 returns
kernel_return(w) ==
    /\ pc[w] = "exec"
    /\ done' = Append(done, new_task[w])
    /\ global_up_array' = IF type(new_task[w]) = 1
                          THEN StoreReflectors(global_up_array, new_task[w])
                          ELSE global_up_array
    /\ LET v == IF mat = Generic THEN Arrays ELSE KernelValues(Arrays, new_task[w])
       IN /\ mat' = v.mat
          /\ global_up_values' = v.up
          /\ global_b_values' = v.b
    /\ pc' = [pc EXCEPT ![w] = "set"]
    /\ UNCHANGED <<build, args, mat_in, driver, ncalls, taskPQ, wait_queue, dependency_table,
                   new_task, k, enqBy>>

\* mutant: the table is cleared before the task's flag is set
set_dependency_reinit(w) ==
    /\ pc[w] = "set"
    /\ dependency_table' = [DependencyInit(total_task_rows, total_task_cols)
                               EXCEPT ![new_task[w][1]][new_task[w][2]] = TRUE]
    /\ pc' = [pc EXCEPT ![w] = IF type(new_task[w]) = 1 THEN "r1" ELSE "r2"]
    /\ k' = [k EXCEPT ![w] = IF type(new_task[w]) = 1 THEN new_task[w][1] + 1 ELSE 0]
    /\ UNCHANGED <<build, args, values, driver, ncalls, taskPQ, wait_queue, global_up_array,
                   new_task, done, enqBy>>

\* mutant: the R1 loop starts at k = i instead of k = i + 1
set_dependency_k_from_i(w) ==
    /\ pc[w] = "set"
    /\ dependency_table' = setDependency(new_task[w][1], new_task[w][2], TRUE)
    /\ pc' = [pc EXCEPT ![w] = IF type(new_task[w]) = 1 THEN "r1" ELSE "r2"]
    /\ k' = [k EXCEPT ![w] = IF type(new_task[w]) = 1 THEN new_task[w][1] ELSE 0]
    /\ UNCHANGED <<build, args, values, driver, ncalls, taskPQ, wait_queue, global_up_array,
                   new_task, done, enqBy>>

\* dependency_table.setDependency(i, j, true) and the start of the branch that
\* follows it: the R1 loop (int k = i + 1) after a type-1 task, the R2 test after a type-2 task
set_dependency(w) ==
    /\ pc[w] = "set"
    /\ dependency_table' = setDependency(new_task[w][1], new_task[w][2], TRUE)
    /\ pc' = [pc EXCEPT ![w] = IF type(new_task[w]) = 1 THEN "r1" ELSE "r2"]
    /\ k' = [k EXCEPT ![w] = IF type(new_task[w]) = 1 THEN new_task[w][1] + 1 ELSE 0]
    /\ UNCHANGED <<build, args, values, driver, ncalls, taskPQ, wait_queue, global_up_array,
                   new_task, done, enqBy>>

\* one iteration of the loop after a type-1 task (rule R1), or its exit.  The read
\* of the left neighbour's flag and the push are one step: a flag read as true stays
\* true, and a flag read as false may be set before or after the push alike.
enqueue_r1(w) ==
    /\ pc[w] = "r1"
    /\ LET j == new_task[w][2]
           next_task == getTask(k[w], j)
       IN IF k[w] < total_task_rows
          THEN /\ IF j = 0 \/ getDependency(k[w], j - 1)
                  THEN /\ taskPQ' = Append(taskPQ, next_task)
                       /\ UNCHANGED wait_queue
                  ELSE /\ wait_queue' = Append(wait_queue, next_task)
                       /\ UNCHANGED taskPQ
               /\ enqBy' = enqBy \cup {<<next_task, new_task[w]>>}
               /\ k' = [k EXCEPT ![w] = k[w] + 1]
               /\ UNCHANGED <<pc, new_task>>
          ELSE /\ pc' = [pc EXCEPT ![w] = "wait"]
               /\ new_task' = [new_task EXCEPT ![w] = NoTask]
               /\ k' = [k EXCEPT ![w] = 0]
               /\ UNCHANGED <<taskPQ, wait_queue, enqBy>>
    /\ UNCHANGED <<build, args, values, driver, ncalls, dependency_table, global_up_array,
                   done>>

\* the push after a type-2 task (rule R2)
enqueue_r2(w) ==
    /\ pc[w] = "r2"
    /\ LET j == new_task[w][2]
           next_task == getTask((j + 1) \div BETA_DIV_ALPHA, j + 1)
       IN IF enq_nxt_t1(new_task[w]) /\ (j + 1) <= total_task_cols
          THEN /\ taskPQ' = Append(taskPQ, next_task)
               /\ enqBy' = enqBy \cup {<<next_task, new_task[w]>>}
          ELSE UNCHANGED <<taskPQ, enqBy>>
    /\ pc' = [pc EXCEPT ![w] = "wait"]
    /\ new_task' = [new_task EXCEPT ![w] = NoTask]
    /\ UNCHANGED <<build, args, values, driver, ncalls, wait_queue, dependency_table,
                   global_up_array, k, done>>

\* mutant: a failed wait_queue.try_pop continues with the next loop iteration,
\* skipping the termination predicate
recheck_wait_continue(w) ==
    /\ pc[w] = "wait"
    /\ IF wait_queue = <<>>
       THEN UNCHANGED <<taskPQ, wait_queue>>
       ELSE LET local_task == Head(wait_queue)
            IN IF getDependency(local_task[1], local_task[2] - 1)
               THEN /\ taskPQ' = Append(taskPQ, local_task)
                    /\ wait_queue' = Tail(wait_queue)
               ELSE /\ wait_queue' = Append(Tail(wait_queue), local_task)
                    /\ UNCHANGED taskPQ
    /\ pc' = [pc EXCEPT ![w] = IF wait_queue = <<>> THEN "pop" ELSE "term"]
    /\ UNCHANGED <<build, args, values, driver, ncalls, dependency_table, global_up_array,
                   new_task, k, done, enqBy>>

\* wait_queue.try_pop(local_task), the recheck of its left neighbour and the push
\* that follows, or the failed try_pop
recheck_wait(w) ==
    /\ pc[w] = "wait"
    /\ IF wait_queue = <<>>
       THEN UNCHANGED <<taskPQ, wait_queue>>
       ELSE LET local_task == Head(wait_queue)
            IN IF getDependency(local_task[1], local_task[2] - 1)
               THEN /\ taskPQ' = Append(taskPQ, local_task)
                    /\ wait_queue' = Tail(wait_queue)
               ELSE /\ wait_queue' = Append(Tail(wait_queue), local_task)
                    /\ UNCHANGED taskPQ
    /\ pc' = [pc EXCEPT ![w] = "term"]
    /\ UNCHANGED <<build, args, values, driver, ncalls, dependency_table, global_up_array,
                   new_task, k, done, enqBy>>

\* mutant: the predicate reads the flag of the first panel's factor task
Finished_first_panel == getDependency(0, 0)

\* the termination predicate at the end of a loop iteration
Finished == getDependency(total_task_rows - 1, BETA_DIV_ALPHA * (total_task_rows - 1))

\* mutant: the predicate reads the flag of the first panel's factor task
check_termination_first_panel(w) ==
    /\ pc[w] = "term"
    /\ pc' = [pc EXCEPT ![w] = IF getDependency(0, 0) THEN "exited" ELSE "pop"]
    /\ UNCHANGED <<build, args, values, driver, ncalls, taskPQ, wait_queue, dependency_table,
                   global_up_array, new_task, k, done, enqBy>>

check_termination(w) ==
    /\ pc[w] = "term"
    /\ pc' = [pc EXCEPT ![w] = IF Finished THEN "exited" ELSE "pop"]
    /\ UNCHANGED <<build, args, values, driver, ncalls, taskPQ, wait_queue, dependency_table,
                   global_up_array, new_task, k, done, enqBy>>

thdwork(w) ==
    \/ try_pop_ready(w)
    \/ kernel_return(w)
    \/ set_dependency(w)
    \/ enqueue_r1(w)
    \/ enqueue_r2(w)
    \/ recheck_wait(w)
    \/ check_termination(w)

Next ==
    \/ \E m \in 1..MaxRows, n \in 1..MaxCols : dagqrf(Generic, m, n)
    \/ join
    \/ \E w \in Threads : try_pop_ready(w)
    \/ \E w \in Threads : kernel_return(w)
    \/ \E w \in Threads : set_dependency(w)
    \/ \E w \in Threads : enqueue_r1(w)
    \/ \E w \in Threads : enqueue_r2(w)
    \/ \E w \in Threads : recheck_wait(w)
    \/ \E w \in Threads : check_termination(w)

Spec == Init /\ [][Next]_vars

\* The specification of the liveness properties: every thread that exists keeps
\* taking steps (parallel OS threads that spin), and dagqrf is called on square
\* matrices (mat_cols is read by the kernels only, never by the scheduler).
NextSquare ==
    \/ \E m \in 1..MaxRows : dagqrf(Generic, m, m)
    \/ join
    \/ \E w \in Threads : try_pop_ready(w)
    \/ \E w \in Threads : kernel_return(w)
    \/ \E w \in Threads : set_dependency(w)
    \/ \E w \in Threads : enqueue_r1(w)
    \/ \E w \in Threads : enqueue_r2(w)
    \/ \E w \in Threads : recheck_wait(w)
    \/ \E w \in Threads : check_termination(w)

FairSpec ==
    /\ Init
    /\ [][NextSquare]_vars
    /\ \A w \in 1..MaxThreads : WF_vars(w \in Threads /\ thdwork(w))

\* Builds whose #defines are not restricted: BETA need not be a multiple of ALPHA,
\* and NUM_THREADS may be 0 (std::vector<pthread_t> threads(0), both loops empty).
InitAnyBuild ==
    /\ ALPHA \in 1..MaxAlpha
    /\ BETA \in 1..(MaxAlpha * MaxRatio)
    /\ NUM_THREADS \in 0..MaxThreads
    /\ USE_PRIORITY_MAIN_QUEUE \in BOOLEAN
    /\ mat_rows = 0
    /\ mat_cols = 0
    /\ driver = "idle"
    /\ ncalls = 0
    /\ taskPQ = <<>>
    /\ wait_queue = <<>>
    /\ dependency_table = <<>>
    /\ global_up_array = <<>>
    /\ mat = Generic
    /\ mat_in = Generic
    /\ global_up_values = <<>>
    /\ global_b_values = <<>>
    /\ pc = [w \in Threads |-> "nothread"]
    /\ new_task = [w \in Threads |-> NoTask]
    /\ k = [w \in Threads |-> 0]
    /\ done = <<>>
    /\ enqBy = {}

AnyBuildSpec == InitAnyBuild /\ [][Next]_vars

\* The specification in which the numbers are followed: dagqrf is called on
\* square diagonal matrices with entries 0 and 1, in runs in which no two
\* kernels overlap in time (a single worker, or at most two panel rows, whose
\* second task is pushed after the first has returned).
Entries == {0, 1}
Diagonal(m, d) == [x \in 0..(m * m - 1) |-> IF x \div m = x % m THEN d[(x \div m) + 1] ELSE 0]
NoOverlap(m) == NUM_THREADS = 1 \/ CeilDiv(m, BETA) <= 2

NextValues ==
    \/ \E m \in 1..MaxRows : \E d \in [1..m -> Entries] :
           NoOverlap(m) /\ dagqrf(Diagonal(m, d), m, m)
    \/ join
    \/ \E w \in Threads : try_pop_ready(w)
    \/ \E w \in Threads : kernel_return(w)
    \/ \E w \in Threads : set_dependency(w)
    \/ \E w \in Threads : enqueue_r1(w)
    \/ \E w \in Threads : enqueue_r2(w)
    \/ \E w \in Threads : recheck_wait(w)
    \/ \E w \in Threads : check_termination(w)

\* the build as the source has it: the FIFO ready queue (#define USE_PRIORITY_MAIN_QUEUE 0)
InitValues == Init /\ ~USE_PRIORITY_MAIN_QUEUE

ValueSpec == InitValues /\ [][NextValues]_vars

\* ============================================================= properties
Range(q) == {q[x] : x \in DOMAIN q}
Count(q, t) == Cardinality({x \in DOMAIN q : q[x] = t})

Running == driver = "joining"
AllExited == Running /\ \A w \in Threads : pc[w] = "exited"
Executing(w) == Running /\ pc[w] = "exec"

\* how often the kernel of t has been invoked: returned calls and calls in progress
Invoked(t) == Count(done, t) + Cardinality({w \in Threads : Executing(w) /\ new_task[w] = t})

\* the type-1 task of panel i
Factor(i) == getTask(i, i * BETA_DIV_ALPHA)
LastFactor == Factor(total_task_rows - 1)

\* C1: under weak fairness of the workers, every invocation reaches a state in
\* which the last panel's factor flag is set and every worker has left its loop.
C1_Termination == Running ~> (AllExited /\ Finished)

\* C2: when all workers have exited, the kernel of every grid position has been
\* invoked exactly once.
C2_SingleExecution == AllExited => \A t \in Tasks : Invoked(t) = 1

\* C3: while a worker is inside a type-2 kernel, which reads up[r], b[r] for the
\* task's pivot rows, the flag of the type-1 task of the task's panel is set.
C3_ProducerBeforeConsumer ==
    \A w \in Threads :
        (Executing(w) /\ type(new_task[w]) = 2)
            => getDependency(new_task[w][1], new_task[w][1] * BETA_DIV_ALPHA)

Flag(t) == getDependency(t[1], t[2])
FlagImpliesDone == \A t \in Tasks : Flag(t) => t \in Range(done)
PushersFlagged == \A e \in enqBy : e[2] # Seed => Flag(e[2])
FlagSetByRunner ==
    \A t \in Tasks :
        (~Flag(t) /\ Flag(t)') =>
            \E w \in Threads : /\ pc[w] = "set"
                               /\ new_task[w] = t
                               /\ pc'[w] \in {"r1", "r2"}
                               /\ t \in Range(done)
PushAfterFlag ==
    \A e \in enqBy' \ enqBy :
        /\ Flag(e[2])
        /\ \E w \in Threads : new_task[w] = e[2] /\ pc[w] \in {"r1", "r2"}
C5_FlagOrdering ==
    [][Running => (FlagImpliesDone' /\ PushersFlagged' /\ FlagSetByRunner /\ PushAfterFlag)]_vars

\* C5 witness: a task pushed by a worker sits in the ready queue
C5_Witness ==
    /\ Running
    /\ \E e \in enqBy : e[2] # Seed /\ e[1] \in Range(taskPQ) /\ Flag(e[2])

\* C6: within a run, a flag that is true stays true.
C6_MonotonicDependency == [][Running => \A t \in Tasks : Flag(t) => Flag(t)']_vars

\* C6 witness: a flag set earlier is still set when a later task sets its own
C6_Witness == Running /\ Cardinality({t \in Tasks : Flag(t)}) >= 2

\* C7: under weak fairness, no task stays on the wait queue forever (it leaves it
\* only by being pushed onto the ready queue), and no task stays enqueued or
\* inside its kernel forever: every enqueued task is eventually executed.
GridBound == (0..(MaxRows - 1)) \X (0..(MaxRows - 1))
Waiting(t) == Running /\ t \in Range(wait_queue)
Pending(t) ==
    /\ Running
    /\ \/ t \in Range(wait_queue)
       \/ t \in Range(taskPQ)
       \/ \E w \in Threads : pc[w] = "exec" /\ new_task[w] = t
R1Targets(t) == [x \in 1..(total_task_rows - 1 - t[1]) |-> getTask(t[1] + x, t[2])]
RefPushReady(t, flags) ==
    IF type(t) = 1
    THEN SelectSeq(R1Targets(t), LAMBDA u : u[2] = 0 \/ <<u[1], u[2] - 1>> \in flags)
    ELSE IF enq_nxt_t1(t) /\ (t[2] + 1) <= total_task_cols
         THEN <<getTask((t[2] + 1) \div BETA_DIV_ALPHA, t[2] + 1)>>
         ELSE <<>>
RefPushWait(t, flags) ==
    IF type(t) = 1
    THEN SelectSeq(R1Targets(t), LAMBDA u : ~(u[2] = 0 \/ <<u[1], u[2] - 1>> \in flags))
    ELSE <<>>

RECURSIVE RefRun(_, _, _, _, _)
RefRun(ready, wait, flags, order, fuel) ==
    LET popped == ready # <<>>
        t == Head(ready)
        flags1 == IF popped THEN flags \cup {t} ELSE flags
        order1 == IF popped THEN Append(order, t) ELSE order
        ready1 == IF popped THEN Tail(ready) \o RefPushReady(t, flags1) ELSE ready
        wait1 == IF popped THEN wait \o RefPushWait(t, flags1) ELSE wait
        rechecked == wait1 # <<>>
        u == Head(wait1)
        moved == rechecked /\ <<u[1], u[2] - 1>> \in flags1
        ready2 == IF moved THEN Append(ready1, u) ELSE ready1
        wait2 == IF ~rechecked THEN wait1
                 ELSE IF moved THEN Tail(wait1) ELSE Append(Tail(wait1), u)
    IN IF LastFactor \in flags1 \/ fuel = 0
       THEN order1
       ELSE RefRun(ready2, wait2, flags1, order1, fuel - 1)

RefOrder == RefRun(<<getTask(0, 0)>>, <<>>, {}, <<>>, 2 * Cardinality(Tasks) + 2)

\* the tasks that store to matrix cell c, resp. to reflector slot r, in order
CellWriters(order, c) == SelectSeq(order, LAMBDA t : c \in KernelWrites(t))
SlotWriters(order, r) == SelectSeq(order, LAMBDA t : type(t) = 1 /\ r \in Pivots(t))
AllCells == UNION {KernelWrites(t) : t \in Tasks}
SameWrites(order) ==
    /\ \A c \in AllCells : CellWriters(order, c) = CellWriters(RefOrder, c)
    /\ \A r \in 0..(mat_rows - 1) : SlotWriters(order, r) = SlotWriters(RefOrder, r)

SinglePanel == Running /\ total_task_rows = 1
C10_SinglePanel ==
    /\ [](SinglePanel =>
            /\ \A t \in Tasks : Invoked(t) > 0 => t = getTask(0, 0)
            /\ type(getTask(0, 0)) = 1
            /\ enqBy = {<<getTask(0, 0), Seed>>}
            /\ Range(taskPQ) \subseteq {getTask(0, 0)}
            /\ wait_queue = <<>>)
    /\ (SinglePanel /\ getDependency(0, 0)) ~> AllExited

\* C10 witness: a single-panel run with several column blocks and workers has ended
C10_Witness ==
    /\ SinglePanel
    /\ AllExited
    /\ total_task_cols >= 2
    /\ NUM_THREADS >= 2
    /\ done = <<getTask(0, 0)>>

\* C11: a reflector slot up[r], b[r] is stored to only by the type-1 task of panel
\* r \div BETA, at most one kernel invocation stores to it in a run, and no type-1
\* kernel that stores to it is in progress once a type-2 kernel has begun to read it.
SlotsRead ==
    UNION {Pivots(t) : t \in {u \in Range(done) \cup {new_task[w] : w \in {x \in Threads : Executing(x)}}
                                 : type(u) = 2}}
SlotStores(r) ==
    Len(SlotWriters(done, r))
        + Cardinality({w \in Threads : /\ Executing(w)
                                       /\ type(new_task[w]) = 1
                                       /\ r \in Pivots(new_task[w])})
StoredByOwner ==
    \A r \in 0..(mat_rows - 1) :
        global_up_array'[r + 1] # global_up_array[r + 1]
            => global_up_array'[r + 1] = Factor(r \div BETA)
StoredOnce == \A r \in 0..(mat_rows - 1) : SlotStores(r) <= 1
StoredBeforeRead ==
    \A w \in Threads :
        (Executing(w) /\ type(new_task[w]) = 1) => Pivots(new_task[w]) \cap SlotsRead = {}
InBounds(t) ==
    /\ \A a \in KernelAccesses(t) :
           /\ 0 <= a[1] /\ a[1] < mat_rows
           /\ 0 <= a[2] /\ a[2] < mat_cols
    /\ \A lp \in Pivots(t) : 0 <= lp /\ lp < mat_rows
C12_NoOutOfBounds == \A w \in Threads : Executing(w) => InBounds(new_task[w])

\* C13: in a build with ALPHA not dividing BETA or without worker threads, a call
\* of dagqrf fails at entry: nothing is pushed onto the ready queue, no worker is
\* started, and the reflector arrays are left as they were.
ValidBuild == BETA % ALPHA = 0 /\ NUM_THREADS >= 1
C13_FailFast ==
    ~ValidBuild =>
        /\ driver = "idle"
        /\ taskPQ = <<>>
        /\ \A w \in Threads : pc[w] = "nothread"
        /\ global_up_array = <<>>

Occurrences(t) ==
    Count(taskPQ, t) + Count(wait_queue, t) + Cardinality({w \in Threads : new_task[w] = t})
C19_NoDuplication ==
    Running =>
        \A t \in Tasks :
            /\ Occurrences(t) <= 1
            /\ t \in Range(done) => Count(taskPQ, t) + Count(wait_queue, t) = 0
            /\ Invoked(t) <= 1

\* C19 witness: one task has been executed, a second is being executed and a third
\* is waiting in the ready queue
C19_Witness ==
    /\ Running
    /\ \E t1 \in Range(done), t2 \in Range(taskPQ) :
           \E w \in Threads : Executing(w) /\ Cardinality({t1, t2, new_task[w]}) = 3

\* C20: once the flag of the last panel's factor task is set, no worker begins
\* another loop iteration (so it pops at most one further task), a worker at the
\* termination predicate leaves the loop, and under weak fairness every worker exits.
NoNewIteration ==
    \A w \in Threads :
        /\ pc'[w] = "pop" => pc[w] = "pop"
        /\ pc[w] = "term" => pc'[w] \in {"term", "exited"}
C20_PromptExit ==
    /\ [][(Running /\ Finished) => NoNewIteration]_vars
    /\ (Running /\ Finished) ~> AllExited

\* C20 witness: the flag is set while another worker is in the middle of a loop
\* iteration, and a worker has already exited
C20_Witness ==
    /\ Running
    /\ Finished
    /\ \E w1, w2 \in Threads : pc[w1] = "exited" /\ pc[w2] \in {"pop", "wait", "term"}

\* C23: every index pair a worker hands to the task table or to the dependency
\* table lies in the grid: the flag it sets, the successors and left neighbours
\* of the R1 loop, the target of the R2 push, the left neighbour rechecked for a
\* waiting task, and the flag of the termination predicate.  For every entry of
\* the table that passes the R2 guard j+1 <= total_task_cols, the pushed index
\* has j+1 < total_task_cols.
R2Target(t) == <<(t[2] + 1) \div BETA_DIV_ALPHA, t[2] + 1>>
R2Guard(t) == enq_nxt_t1(t) /\ (t[2] + 1) <= total_task_cols
TableAccesses(w) ==
    CASE pc[w] = "set" -> {new_task[w]}
      [] pc[w] = "r1" ->
            IF k[w] < total_task_rows
            THEN {<<k[w], new_task[w][2]>>}
                     \cup (IF new_task[w][2] = 0 THEN {} ELSE {<<k[w], new_task[w][2] - 1>>})
            ELSE {}
      [] pc[w] = "r2" -> IF R2Guard(new_task[w]) THEN {R2Target(new_task[w])} ELSE {}
      [] pc[w] = "wait" ->
            IF wait_queue = <<>>
            THEN {}
            ELSE {<<Head(wait_queue)[1], Head(wait_queue)[2] - 1>>}
      [] pc[w] = "term" ->
            {<<total_task_rows - 1, BETA_DIV_ALPHA * (total_task_rows - 1)>>}
      [] OTHER -> {}
C23_IndicesInGrid ==
    Running =>
        /\ \A w \in Threads : TableAccesses(w) \subseteq Tasks
        /\ \A t \in Tasks :
               R2Guard(t) => (t[2] + 1 < total_task_cols /\ R2Target(t) \in Tasks)

\* C23 witness: a worker evaluates the termination predicate in a grid of several
\* panel rows with several column blocks per panel, where an entry of the table
\* passes the R2 guard
C23_Witness ==
    /\ Running
    /\ total_task_rows >= 2
    /\ BETA_DIV_ALPHA >= 2
    /\ \E w \in Threads : pc[w] = "term"
    /\ \E t \in Tasks : R2Guard(t)

\* C24: at the moment dagqrf has created the workers, in the first and in every
\* later invocation, every reflector slot is zero, every dependency flag is
\* false, the wait queue is empty and the ready queue holds the seed task only.
Fresh ==
    /\ \A r \in 1..Len(global_up_array) : global_up_array[r] = Zero
    /\ \A t \in Tasks : ~getDependency(t[1], t[2])
    /\ wait_queue = <<>>
    /\ taskPQ = <<getTask(0, 0)>>
C24_FreshState == [][(driver = "idle" /\ driver' = "joining") => Fresh']_vars

\* C25: every matrix cell a running kernel stores to lies in the rectangle
\* [row_start, row_end) x [col_start, col_end) of its task.
Rectangle(t) ==
    {Cell(r, c) : r \in row_start(t)..(row_end(t) - 1), c \in col_start(t)..(col_end(t) - 1)}
C25_WriteConfinement ==
    \A w \in Threads : Executing(w) => KernelWrites(new_task[w]) \subseteq Rectangle(new_task[w])

\* C26: for every task of a panel i >= 1 whose kernel runs, the pivot loop runs
\* over exactly i*BETA .. min((i+1)*BETA, mat_rows) - 1, and for every type-2 task
\* of a column block j >= 1 the column loop runs over exactly
\* j*ALPHA .. min((j+1)*ALPHA, mat_rows) - 1.
C26_SubstitutionFirstPanelOnly ==
    \A w \in Threads :
        Executing(w) =>
            LET t == new_task[w]
            IN /\ t[1] >= 1 =>
                      Pivots(t) = (t[1] * BETA)..(Min((t[1] + 1) * BETA, mat_rows) - 1)
               /\ (type(t) = 2 /\ t[2] >= 1) =>
                      Vectors(t) = (t[2] * ALPHA)..(Min((t[2] + 1) * ALPHA, mat_rows) - 1)

\* the state in which dagqrf has built the tables and created the workers; the
\* task table does not change afterwards
TableBuilt == Running /\ done = <<>> /\ \A w \in Threads : pc[w] = "pop"

Outranks(a, b) ==
    /\ priority(a) > priority(b)
    /\ TaskComparator(b, a)
    /\ ~TaskComparator(a, b)
BeforePivot(t, p) == complete_task1_from(Arrays, t, OneIsZero(row_start(t)), p)

\* C29: when the pivot loop of complete_task1 reaches a pivot row p with cl <= 0
\* (the diagonal element and the rest of row p are zero), the iteration changes
\* no matrix cell, up[p] and b[p] keep their values, these values are zero, and
\* the loop goes on with pivot p + 1.
C29_DegeneratePivotSkip ==
    \A w \in Threads :
        (Executing(w) /\ mat # Generic /\ type(new_task[w]) = 1) =>
            \A p \in Pivots(new_task[w]) :
                LET v == BeforePivot(new_task[w], p)
                    after == complete_task1_pivot(v, new_task[w], p)
                IN PivotNorm(v.mat, p) <= 0 =>
                       /\ after.mat = v.mat
                       /\ after.up[p + 1] = v.up[p + 1] /\ after.up[p + 1] = 0
                       /\ after.b[p + 1] = v.b[p + 1] /\ after.b[p + 1] = 0
                       /\ BeforePivot(new_task[w], p + 1) = after

\* the matrix handed to dagqrf was an identity matrix
IdentityInput ==
    /\ mat_in # Generic
    /\ \A x \in DOMAIN mat_in :
           mat_in[x] = IF x \div mat_cols = x % mat_cols THEN 1 ELSE 0

OffDiagonalZero ==
    \A r \in 0..(mat_rows - 1) : \A c \in 0..(mat_cols - 1) : r # c => mat[Cell(r, c)] = 0

DiagonalUnit == \A r \in 0..(mat_rows - 1) : mat[Cell(r, r)] \in {1, -1}

\* C30 as the specification states it: after the factorization of an identity
\* matrix every off-diagonal cell is 0, every diagonal cell is +1 or -1, and
\* every reflector slot up[r] is 0.
C30_IdentityReflectorsZero ==
    (AllExited /\ IdentityInput) =>
        /\ OffDiagonalZero
        /\ DiagonalUnit
        /\ \A r \in 0..(mat_rows - 1) : global_up_values[r + 1] = 0

\* C30, amended: once the factor task of the first panel has run on an identity
\* matrix, every off-diagonal cell is 0, every diagonal cell is +1 or -1, and for
\* every pivot row r of that task up[r] is 2 and b[r] is -1/2 (kept as its
\* denominator -2); after the factorization diagonal cell r itself is -1.
C30_IdentityReflectors ==
    (Running /\ IdentityInput /\ getTask(0, 0) \in Range(done)) =>
        /\ OffDiagonalZero
        /\ DiagonalUnit
        /\ \A r \in Pivots(getTask(0, 0)) :
               /\ global_up_values[r + 1] = 2
               /\ global_b_values[r + 1] = -2
               /\ AllExited => mat[Cell(r, r)] = -1

C30_Witness ==
    /\ AllExited
    /\ IdentityInput
    /\ mat_rows >= 2
    /\ Pivots(getTask(0, 0)) = 0..(mat_rows - 1)

====
